---- MODULE Spec2Model ----
(***************************************************************************)
(* Model of the `odo init` command: pkg/odo/cli/init/init.go.              *)
(*                                                                         *)
(* One invocation of the command is one behaviour.  GenericRun drives      *)
(* InitOptions.Complete, InitOptions.Validate and InitOptions.Run in this  *)
(* order and stops at the first error.  Run is split at its calls to the   *)
(* collaborators (location, InitClient, FS, devfile library), because the  *)
(* directory on disk changes between them; the deferred function of Run    *)
(* is the action RunDeferred.                                              *)
(***************************************************************************)
EXTENDS Naturals, Sequences, FiniteSets

VARIABLES
    pc,                 \* position of the invocation
    flags,              \* o.flags: canonical flag mapping (key -> value)
    contextDir,         \* o.contextDir: "" until Getwd succeeded
    dir,                \* the content of the working directory on disk
    preDir,             \* the content of the directory when the command started
    starterDownloaded,  \* local variable of Run
    err,                \* the error the current handler returns
    devfileObj,         \* local variable of Run: the parsed manifest in memory
    devfilePath,        \* local variable of Run: where the manifest is staged
    starterInfo,        \* local variable of Run: the selected starter or Nil
    name,               \* local variable of Run: the personalised name
    isEmptyDir,         \* local variable of Run: the result of the emptiness probe
    extracted,          \* what of the starter archive was extracted: "files", "devfile"
    log,                \* the calls made so far, in order
    removed,            \* the paths the orchestrator passed to FS.Remove, in order
    greeting,           \* what Run printed before the acquisition
    telemetry           \* the facts set on the run context

vars == <<pc, flags, contextDir, dir, preDir, starterDownloaded, err, devfileObj,
          devfilePath, starterInfo, name, isEmptyDir, extracted, log, removed, greeting,
          telemetry>>

----------------------------------------------------------------------------
(* Bounds *)

\* number of files other than devfile.yaml the directory can hold
MaxFiles == 1
\* longest component name the user can supply
MaxNameLen == 2

----------------------------------------------------------------------------
(* Flags *)

FLAG_NAME == "name"
FLAG_DEVFILE == "devfile"
FLAG_DEVFILE_REGISTRY == "devfile-registry"
FLAG_STARTER == "starter"
FLAG_DEVFILE_PATH == "devfile-path"

FlagKeys == {FLAG_NAME, FLAG_DEVFILE, FLAG_DEVFILE_REGISTRY, FLAG_STARTER, FLAG_DEVFILE_PATH}

\* Characters of a name: a lower-case letter, a digit, a dash, an upper-case letter.
Chars == {"a", "0", "-", "A"}

\* The values a flag can be given on the command line; <<>> is the empty string
\* (the default of every flag).
Names == UNION {[1..n -> Chars] : n \in 0..MaxNameLen}

\* What cmdline.GetFlags returns: every flag with its value, the name any string,
\* the other flags given or not.
RawFlags == {[k \in FlagKeys |-> IF k = FLAG_NAME THEN n
                                 ELSE IF k \in S THEN <<"a">> ELSE <<>>] :
                n \in Names, S \in SUBSET (FlagKeys \ {FLAG_NAME})}

\* InitClient.GetFlags: the canonical mapping keeps the flags with a value.
GetFlags(raw) ==
    LET K == {k \in FlagKeys : raw[k] # <<>>}
    IN  [k \in K |-> raw[k]]

Has(f, k) == k \in DOMAIN f

\* len(o.flags) == 0
NoFlags(f) == DOMAIN f = {}

----------------------------------------------------------------------------
(* Manifests and the directory *)

NoManifest == [name |-> <<>>, origin |-> "none", valid |-> FALSE]

AcquiredName == <<"a", "0">>
StarterName == <<"a", "a">>
BaseName == <<"a">>

PreManifest == [name |-> <<"0">>, origin |-> "pre", valid |-> TRUE]
StarterManifest(v) == [name |-> StarterName, origin |-> "starter", valid |-> v]

Slots == 1..MaxFiles

\* The directory: the file devfile.yaml (NoManifest when absent) and the other
\* entries, each absent, a file of the user or a file of the starter.
EmptyDir == [devfile |-> NoManifest, others |-> [i \in Slots |-> "absent"]]

PreDirs == {[devfile |-> d, others |-> o] :
                d \in {NoManifest, PreManifest}, o \in [Slots -> {"absent", "user"}]}

\* location.DirectoryContainsDevfile
DirectoryContainsDevfile(d) == d.devfile # NoManifest

\* location.DirIsEmpty: no entry at all
DirIsEmpty(d) == d.devfile = NoManifest /\ \A i \in Slots : d.others[i] = "absent"

DevfileYaml == "devfile.yaml"

----------------------------------------------------------------------------
(* Errors *)

NoErr == [cause |-> "nil", prefix |-> "", annotations |-> <<>>]

Error(kind) == [cause |-> kind, prefix |-> "", annotations |-> <<>>]

\* fmt.Errorf("<prefix>: %w", e)
Wrap(prefix, e) == [e EXCEPT !.prefix = prefix]

NotCleanedUp == "the command failed after downloading the starter project. By security, the directory is not cleaned up"
DevfileRemoved == "the command failed, the devfile has been removed from current directory"

\* fmt.Errorf("%w\n<annotation>", e)
Annotate(e, a) == [e EXCEPT !.annotations = Append(@, a)]

Nil == "nil"

NoTelemetry == [interactive |-> "unset", componentType |-> "unset", language |-> "unset",
                projectType |-> "unset", devfileName |-> "unset"]

----------------------------------------------------------------------------
Init ==
    /\ pc = "Complete"
    /\ flags = <<>>
    /\ contextDir = ""
    /\ preDir \in PreDirs
    /\ dir = preDir
    /\ starterDownloaded = FALSE
    /\ err = NoErr
    /\ devfileObj = NoManifest
    /\ devfilePath = ""
    /\ starterInfo = Nil
    /\ name = <<>>
    /\ isEmptyDir = FALSE
    /\ extracted = {}
    /\ log = <<>>
    /\ removed = <<>>
    /\ greeting = "none"
    /\ telemetry = NoTelemetry

----------------------------------------------------------------------------
(* The collaborators of the orchestrator *)

Called(e) == \E i \in 1..Len(log) : log[i] = e

Count(e) == Cardinality({i \in 1..Len(log) : log[i] = e})

\* Position of the first call of e in the log, 0 when it was never called.
First(e) == IF Called(e) THEN CHOOSE i \in 1..Len(log) : log[i] = e /\ \A j \in 1..(i-1) : log[j] # e
            ELSE 0

\* InitClient.Validate: the rules on the flag mapping, in this order.
InitClientValidate(f) ==
    IF Has(f, FLAG_DEVFILE) /\ Has(f, FLAG_DEVFILE_PATH) THEN Error("FlagConflict")
    ELSE IF Has(f, FLAG_DEVFILE_REGISTRY) /\ ~Has(f, FLAG_DEVFILE) THEN Error("FlagDependency")
    ELSE IF Has(f, FLAG_STARTER) /\ ~Has(f, FLAG_DEVFILE) /\ ~Has(f, FLAG_DEVFILE_PATH)
         THEN Error("StarterWithoutDevfile")
    ELSE NoErr

\* The backend that serves the invocation.
Backend(f, empty) ==
    IF ~NoFlags(f) THEN "flags"
    ELSE IF ~empty THEN "detection"
    ELSE "interactive"

\* The errors the acquisition of a manifest can end with, per backend.
AcquireErrors(b) ==
    IF b = "flags" THEN {"FetchFailed", "ManifestInvalid"}
    ELSE IF b = "detection" THEN {"DetectionFailed", "FetchFailed"}
    ELSE {"UserAborted", "FetchFailed"}

AcquiredNames == {AcquiredName, <<>>}
AcquiredManifest(n) == [name |-> n, origin |-> "acquired", valid |-> TRUE]

\* The naming rule [a-z]([-a-z0-9]*[a-z0-9])? with at most NameMaxLen characters.
NameMaxLen == 63
NameValid(n) ==
    /\ Len(n) >= 1
    /\ Len(n) <= NameMaxLen
    /\ n[1] = "a"
    /\ n[Len(n)] \in {"a", "0"}
    /\ \A i \in 1..Len(n) : n[i] \in {"a", "0", "-"}

\* InitClient.PersonalizeName: the name and the error. `answer` is what the user
\* types when the interactive backend prompts.
PersonalizeName(obj, f, b, answer) ==
    LET supplied == IF b = "interactive" THEN answer
                    ELSE IF Has(f, FLAG_NAME) THEN f[FLAG_NAME]
                    ELSE <<>>
    IN  IF supplied # <<>>
        THEN IF NameValid(supplied) THEN [name |-> supplied, err |-> NoErr]
             ELSE [name |-> <<>>, err |-> Error("NameInvalid")]
        ELSE [name |-> IF obj.name # <<>> THEN obj.name ELSE BaseName, err |-> NoErr]

\* DownloadStarterProject on directory d: the directory is cleared or not, then
\* the first k files of the archive are extracted, and its devfile.yaml when dv.
Extract(d, cleared, k, dv, valid) ==
    LET base == IF cleared THEN EmptyDir ELSE d
    IN  [devfile |-> IF dv THEN StarterManifest(valid) ELSE base.devfile,
         others |-> [i \in Slots |-> IF i <= k THEN "starter" ELSE base.others[i]]]

Extracted(k, dv) == (IF k >= 1 THEN {"files"} ELSE {}) \cup (IF dv THEN {"devfile"} ELSE {})

\* FS.Stat(devfilePath) succeeds
StatOK(d, path) == path = DevfileYaml /\ d.devfile # NoManifest

\* FS.Remove(path): removes the file when it exists, fails otherwise
Remove(d, path) == IF path = DevfileYaml THEN [d EXCEPT !.devfile = NoManifest] ELSE d

\* devfileObj.SetMetadataName writes the manifest to its path
WriteDevfile(d, obj) == [d EXCEPT !.devfile = obj]

----------------------------------------------------------------------------
(* The decisions of the orchestrator *)

\* A Validate that forgets the check of an existing devfile.yaml
ValidateResultSkipsPresence(devfilePresent, f) == InitClientValidate(f)

\* A Validate that forgets to return the error of InitClient.Validate
ValidateResultSkipsFlags(devfilePresent, f) ==
    IF devfilePresent THEN Error("AlreadyInitialised") ELSE NoErr

\* InitOptions.Validate, after the probe of the directory succeeded
ValidateResult(devfilePresent, f) ==
    IF devfilePresent THEN Error("AlreadyInitialised")
    ELSE InitClientValidate(f)

\* A Complete that marks the invocation interactive when flags are given
InteractiveFactInverted(f) == IF NoFlags(f) THEN "false" ELSE "true"

\* scontext.SetInteractive(ctx, len(o.flags) == 0)
InteractiveFact(f) == IF NoFlags(f) THEN "true" ELSE "false"

\* The facts Run sets after the commit, read from the committed manifest
Facts(t, obj) == [t EXCEPT !.componentType = obj.origin,
                           !.language = obj.origin,
                           !.projectType = obj.origin,
                           !.devfileName = obj.name]

\* A Run that greets whatever the flags are
GreetingWithFlags(empty, f) ==
    IF empty THEN "empty directory" ELSE "existing sources"

\* The greeting of Run
Greeting(empty, f) ==
    IF empty /\ NoFlags(f) THEN "empty directory"
    ELSE IF NoFlags(f) THEN "existing sources"
    ELSE "none"

\* A Run that returns the error of PersonalizeName as it is
NameErrorUnwrapped(e) == e

\* The error Run returns when PersonalizeName failed
NameError(e) == Wrap("failed to update the devfile's name", e)

\* The error Run returns when DownloadStarterProject failed
DownloadError(e) == Wrap("unable to download starter project", e)

\* A Run that sets starterDownloaded before it looks at the error
StarterDownloadedAlways(sd, e) == TRUE

\* A Run that never downloads the starter
AfterPersonalizeNameSkipsDownload(si) == "Commit"

\* The step after PersonalizeName
AfterPersonalizeName(si) == IF si # Nil THEN "Download" ELSE "Commit"

\* starterDownloaded after DownloadStarterProject returned e
StarterDownloadedAfter(sd, e) == IF e = NoErr THEN TRUE ELSE sd

\* What Run assigns to err from FS.Stat(devfilePath): Run tests it and goes on
StatError(ok) == IF ok THEN NoErr ELSE Error("NotExist")

\* A Run that returns when FS.Stat(devfilePath) fails
AfterStatFailsOnMissing(ok) == IF ok THEN "Parse" ELSE "Deferred"

\* The step after FS.Stat(devfilePath)
AfterStat(ok) == IF ok THEN "Parse" ELSE "Commit"

\* A Run that keeps the acquired manifest after the download
ReparsedKeepsAcquired(obj, onDisk) == obj

\* A Run that commits the manifest without the personalised name
CommittedKeepsName(obj, n) == obj

\* The manifest Run parses again after the download, in place of obj
Reparsed(obj, onDisk) == onDisk

\* The manifest Run commits: devfileObj with the personalised name
Committed(obj, n) == [obj EXCEPT !.name = n]

\* A deferred function that removes the manifest whatever starterDownloaded is
RollbackAlwaysRemoves(e, sd) ==
    IF e = NoErr THEN [err |-> e, remove |-> ""]
    ELSE IF sd THEN [err |-> Annotate(e, NotCleanedUp), remove |-> DevfileYaml]
    ELSE [err |-> Annotate(e, DevfileRemoved), remove |-> DevfileYaml]

\* A deferred function that never removes the manifest
RollbackNeverRemoves(e, sd) ==
    IF e = NoErr THEN [err |-> e, remove |-> ""]
    ELSE IF sd THEN [err |-> Annotate(e, NotCleanedUp), remove |-> ""]
    ELSE [err |-> Annotate(e, DevfileRemoved), remove |-> ""]

\* A deferred function that removes the manifest without saying so
RollbackDropsAnnotation(e, sd) ==
    IF e = NoErr THEN [err |-> e, remove |-> ""]
    ELSE IF sd THEN [err |-> Annotate(e, NotCleanedUp), remove |-> ""]
    ELSE [err |-> e, remove |-> DevfileYaml]

\* A deferred function that removes the whole directory
RollbackRemovesContextDir(e, sd) ==
    IF e = NoErr THEN [err |-> e, remove |-> ""]
    ELSE IF sd THEN [err |-> Annotate(e, NotCleanedUp), remove |-> ""]
    ELSE [err |-> Annotate(e, DevfileRemoved), remove |-> "."]

\* The deferred function of Run: the error returned and the path removed
\* ("" when nothing is removed).
Rollback(e, sd) ==
    IF e = NoErr THEN [err |-> e, remove |-> ""]
    ELSE IF sd THEN [err |-> Annotate(e, NotCleanedUp), remove |-> ""]
    ELSE [err |-> Annotate(e, DevfileRemoved), remove |-> DevfileYaml]

----------------------------------------------------------------------------
(* InitOptions.Complete *)

Complete ==
    /\ pc = "Complete"
    /\ \E ok \in BOOLEAN, raw \in RawFlags :
        IF ~ok
        THEN /\ err' = Error("GetwdFailed")
             /\ pc' = "Exit"
             /\ log' = Append(log, "Getwd")
             /\ UNCHANGED <<flags, contextDir, telemetry>>
        ELSE /\ contextDir' = "/work"
             /\ flags' = GetFlags(raw)
             /\ telemetry' = [telemetry EXCEPT !.interactive = InteractiveFact(GetFlags(raw))]
             /\ log' = log \o <<"Getwd", "GetFlags", "SetInteractive">>
             /\ pc' = "Validate"
             /\ err' = NoErr
    /\ UNCHANGED <<removed, dir, preDir, starterDownloaded, devfileObj, devfilePath, starterInfo,
                   name, isEmptyDir, extracted, greeting>>

(* InitOptions.Validate *)

Validate ==
    /\ pc = "Validate"
    /\ \E ok \in BOOLEAN :
        IF ~ok
        THEN /\ err' = Error("StatFailed")
             /\ log' = Append(log, "DirectoryContainsDevfile")
        ELSE /\ err' = ValidateResult(DirectoryContainsDevfile(dir), flags)
             /\ log' = log \o (IF DirectoryContainsDevfile(dir)
                               THEN <<"DirectoryContainsDevfile">>
                               ELSE <<"DirectoryContainsDevfile", "Validate">>)
    /\ pc' = IF err' = NoErr THEN "Run" ELSE "Exit"
    /\ UNCHANGED <<removed, flags, contextDir, dir, preDir, starterDownloaded, devfileObj, devfilePath,
                   starterInfo, name, isEmptyDir, extracted, greeting, telemetry>>

----------------------------------------------------------------------------
(* InitOptions.Run *)

\* Variables no step of Run changes
Fixed == <<flags, contextDir, preDir>>

\* location.DirIsEmpty and the greeting
RunDirIsEmpty ==
    /\ pc = "Run"
    /\ \E ok \in BOOLEAN :
        IF ~ok
        THEN /\ err' = Error("ReadDirFailed")
             /\ pc' = "Deferred"
             /\ log' = Append(log, "DirIsEmpty")
             /\ UNCHANGED <<isEmptyDir, greeting>>
        ELSE /\ isEmptyDir' = DirIsEmpty(dir)
             /\ greeting' = Greeting(DirIsEmpty(dir), flags)
             /\ log' = log \o (IF Greeting(DirIsEmpty(dir), flags) # "none"
                               THEN <<"DirIsEmpty", "Println">> ELSE <<"DirIsEmpty">>)
             /\ pc' = "Acquire"
             /\ err' = NoErr
    /\ UNCHANGED <<removed, dir, starterDownloaded, devfileObj, devfilePath, starterInfo, name,
                   extracted, telemetry>>
    /\ UNCHANGED Fixed

\* InitClient.SelectAndPersonalizeDevfile: on success the manifest is staged on disk
RunSelectAndPersonalizeDevfile ==
    /\ pc = "Acquire"
    /\ log' = Append(log, "SelectAndPersonalizeDevfile")
    /\ \/ \E n \in AcquiredNames :
            /\ devfileObj' = AcquiredManifest(n)
            /\ devfilePath' = DevfileYaml
            /\ dir' = WriteDevfile(dir, AcquiredManifest(n))
            /\ err' = NoErr
            /\ pc' = "SelectStarter"
       \/ \E kind \in AcquireErrors(Backend(flags, isEmptyDir)), staged \in BOOLEAN :
            /\ staged => kind = "ManifestInvalid"
            /\ dir' = IF staged
                      THEN WriteDevfile(dir, [AcquiredManifest(AcquiredName) EXCEPT !.valid = FALSE])
                      ELSE dir
            /\ err' = Error(kind)
            /\ pc' = "Deferred"
            /\ UNCHANGED <<devfileObj, devfilePath>>
    /\ UNCHANGED <<removed, starterDownloaded, starterInfo, name, isEmptyDir, extracted, greeting, telemetry>>
    /\ UNCHANGED Fixed

\* InitClient.SelectStarterProject
RunSelectStarterProject ==
    /\ pc = "SelectStarter"
    /\ log' = Append(log, "SelectStarterProject")
    /\ LET b == Backend(flags, isEmptyDir)
           wanted == (b = "flags" /\ Has(flags, FLAG_STARTER)) \/ b = "interactive"
           optional == b # "flags"
       IN  \/ /\ wanted
              /\ starterInfo' = "starter"
              /\ err' = NoErr
              /\ pc' = "PersonalizeName"
           \/ /\ ~wanted \/ optional
              /\ starterInfo' = Nil
              /\ err' = NoErr
              /\ pc' = "PersonalizeName"
           \/ /\ wanted
              /\ starterInfo' = Nil
              /\ err' = Error(IF b = "flags" THEN "StarterNotFound" ELSE "UserAborted")
              /\ pc' = "Deferred"
    /\ UNCHANGED <<removed, dir, starterDownloaded, devfileObj, devfilePath, name, isEmptyDir,
                   extracted, greeting, telemetry>>
    /\ UNCHANGED Fixed

\* InitClient.PersonalizeName: the name is kept in memory
RunPersonalizeName ==
    /\ pc = "PersonalizeName"
    /\ log' = Append(log, "PersonalizeName")
    /\ \E answer \in IF Backend(flags, isEmptyDir) = "interactive" THEN Names \ {<<>>} ELSE {<<>>} :
        LET r == PersonalizeName(devfileObj, flags, Backend(flags, isEmptyDir), answer)
        IN  IF r.err # NoErr
            THEN /\ err' = NameError(r.err)
                 /\ pc' = "Deferred"
                 /\ UNCHANGED name
            ELSE /\ name' = r.name
                 /\ err' = NoErr
                 /\ pc' = AfterPersonalizeName(starterInfo)
    /\ UNCHANGED <<removed, dir, starterDownloaded, devfileObj, devfilePath, starterInfo, isEmptyDir,
                   extracted, greeting, telemetry>>
    /\ UNCHANGED Fixed

\* InitClient.DownloadStarterProject
RunDownloadStarterProject ==
    /\ pc = "Download"
    /\ log' = Append(log, "DownloadStarterProject")
    /\ \/ \* the archive cannot be fetched: nothing is extracted
          /\ err' = DownloadError(Error("DownloadFailed"))
          /\ starterDownloaded' = StarterDownloadedAfter(starterDownloaded, Error("DownloadFailed"))
          /\ pc' = "Deferred"
          /\ UNCHANGED <<dir, extracted>>
       \/ \* the extraction fails part-way
          \E cleared \in BOOLEAN, k \in 0..MaxFiles, dv \in BOOLEAN, valid \in BOOLEAN :
          /\ k >= 1 \/ dv
          /\ dv \/ valid
          /\ dir' = Extract(dir, cleared, k, dv, valid)
          /\ extracted' = Extracted(k, dv)
          /\ err' = DownloadError(Error("ExtractFailed"))
          /\ starterDownloaded' = StarterDownloadedAfter(starterDownloaded, Error("ExtractFailed"))
          /\ pc' = "Deferred"
       \/ \* the whole archive is extracted
          \E cleared \in BOOLEAN, dv \in BOOLEAN, valid \in BOOLEAN :
          /\ dv \/ valid
          /\ dir' = Extract(dir, cleared, MaxFiles, dv, valid)
          /\ extracted' = Extracted(MaxFiles, dv)
          /\ err' = NoErr
          /\ starterDownloaded' = StarterDownloadedAfter(starterDownloaded, NoErr)
          /\ pc' = "Stat"
    /\ UNCHANGED <<removed, devfileObj, devfilePath, starterInfo, name, isEmptyDir, greeting, telemetry>>
    /\ UNCHANGED Fixed

\* FS.Stat(devfilePath)
RunStat ==
    /\ pc = "Stat"
    /\ log' = Append(log, "Stat")
    /\ err' = StatError(StatOK(dir, devfilePath))
    /\ pc' = AfterStat(StatOK(dir, devfilePath))
    /\ UNCHANGED <<removed, dir, starterDownloaded, devfileObj, devfilePath, starterInfo, name,
                   isEmptyDir, extracted, greeting, telemetry>>
    /\ UNCHANGED Fixed

\* devfile.ParseDevfileAndValidate(devfilePath)
RunParseDevfileAndValidate ==
    /\ pc = "Parse"
    /\ log' = Append(log, "ParseDevfileAndValidate")
    /\ IF dir.devfile.valid
       THEN /\ devfileObj' = Reparsed(devfileObj, dir.devfile)
            /\ err' = NoErr
            /\ pc' = "Commit"
       ELSE /\ devfileObj' = NoManifest
            /\ err' = Error("ManifestInvalid")
            /\ pc' = "Deferred"
    /\ UNCHANGED <<removed, dir, starterDownloaded, devfilePath, starterInfo, name, isEmptyDir,
                   extracted, greeting, telemetry>>
    /\ UNCHANGED Fixed

\* devfileObj.SetMetadataName(name): writes the manifest to disk
RunSetMetadataName ==
    /\ pc = "Commit"
    /\ log' = Append(log, "SetMetadataName")
    /\ LET obj == Committed(devfileObj, name)
       IN  \/ /\ devfileObj' = obj
              /\ dir' = WriteDevfile(dir, obj)
              /\ err' = NoErr
              /\ pc' = "Telemetry"
           \/ \E written \in BOOLEAN :
              /\ devfileObj' = obj
              /\ dir' = IF written THEN WriteDevfile(dir, obj) ELSE dir
              /\ err' = Error("WriteFailed")
              /\ pc' = "Deferred"
    /\ UNCHANGED <<removed, starterDownloaded, devfilePath, starterInfo, name, isEmptyDir,
                   extracted, greeting, telemetry>>
    /\ UNCHANGED Fixed

\* The telemetry facts and the exit message; Run returns nil
RunTelemetry ==
    /\ pc = "Telemetry"
    /\ telemetry' = Facts(telemetry, devfileObj)
    /\ log' = log \o <<"SetComponentType", "SetLanguage", "SetProjectType", "SetDevfileName">>
    /\ pc' = "Deferred"
    /\ UNCHANGED <<removed, dir, starterDownloaded, err, devfileObj, devfilePath, starterInfo, name,
                   isEmptyDir, extracted, greeting>>
    /\ UNCHANGED Fixed

\* The deferred function of Run
RunDeferred ==
    /\ pc = "Deferred"
    /\ LET r == Rollback(err, starterDownloaded)
       IN  /\ err' = r.err
           /\ dir' = IF r.remove # "" THEN Remove(dir, r.remove) ELSE dir
           /\ log' = IF r.remove # "" THEN Append(log, "Remove") ELSE log
           /\ removed' = IF r.remove # "" THEN Append(removed, r.remove) ELSE removed
    /\ pc' = "Done"
    /\ UNCHANGED <<starterDownloaded, devfileObj, devfilePath, starterInfo, name, isEmptyDir,
                   extracted, greeting, telemetry>>
    /\ UNCHANGED Fixed

----------------------------------------------------------------------------
Next ==
    \/ Complete
    \/ Validate
    \/ RunDirIsEmpty
    \/ RunSelectAndPersonalizeDevfile
    \/ RunSelectStarterProject
    \/ RunPersonalizeName
    \/ RunDownloadStarterProject
    \/ RunStat
    \/ RunParseDevfileAndValidate
    \/ RunSetMetadataName
    \/ RunTelemetry
    \/ RunDeferred

Spec == Init /\ [][Next]_vars

----------------------------------------------------------------------------
(* Properties *)

\* The invocation is over: GenericRun exited before Run, or Run returned.
Exited == pc = "Exit"
Returned == pc = "Done"
Failed == err # NoErr

\* Run has been entered
InRun == pc \notin {"Complete", "Validate", "Exit"}

\* C1: when DownloadStarterProject fails after a byte of the archive was
\* extracted, starterDownloaded is true when the rollback runs, the error
\* returned says "not cleaned up" and the orchestrator removes no file.
C1_PartialExtractionPreserved ==
    (pc \in {"Deferred", "Done"} /\ err.cause = "ExtractFailed" /\ extracted # {})
        => /\ starterDownloaded
           /\ ~Called("Remove")
           /\ Returned => err.annotations = <<NotCleanedUp>>

\* C2: in a directory that already contains devfile.yaml, whatever the flags,
\* the invocation fails with the already-initialised error (once Getwd and the
\* probe of the directory answered), never enters Run and its rollback, and
\* the directory stays as it was.
C2_NonClobber ==
    DirectoryContainsDevfile(preDir)
        => /\ dir = preDir
           /\ ~InRun
           /\ ~Called("Remove")
           /\ ~Called("SelectAndPersonalizeDevfile")
           /\ Exited => /\ Failed
                        /\ err.annotations = <<>>
                        /\ err.cause \notin {"GetwdFailed", "StatFailed"}
                                => err = Error("AlreadyInitialised")

C2_Witness ==
    /\ Exited
    /\ err = Error("AlreadyInitialised")
    /\ InitClientValidate(flags) # NoErr
    /\ dir.devfile = PreManifest

\* C3: a run that fails after starterDownloaded became true (the manifest of
\* the starter does not parse, or the commit fails) removes no file and
\* returns an error that says "not cleaned up"; after a parse failure the
\* manifest of the starter is still on disk.
C3_RollbackWithStarter ==
    (pc \in {"Deferred", "Done"} /\ Failed /\ starterDownloaded)
        => /\ err.cause \in {"ManifestInvalid", "WriteFailed"}
           /\ ~Called("Remove")
           /\ \A i \in Slots : dir.others[i] = "starter"
           /\ err.cause = "ManifestInvalid" => dir.devfile = StarterManifest(FALSE)
           /\ Returned => err.annotations = <<NotCleanedUp>>

C3_Witness ==
    /\ Returned
    /\ starterDownloaded
    /\ err.cause = "ManifestInvalid"
    /\ Called("ParseDevfileAndValidate")
    /\ dir.devfile = StarterManifest(FALSE)

C5_SuccessPostCondition ==
    (Returned /\ ~Failed)
        => /\ DirectoryContainsDevfile(dir)
           /\ dir.devfile.valid
           /\ dir.devfile.name = name
           /\ name # <<>>
           /\ dir.devfile = devfileObj

C5_Witness ==
    /\ Returned
    /\ ~Failed
    /\ starterInfo # Nil
    /\ "devfile" \notin extracted
    /\ dir.devfile.origin = "acquired"
    /\ dir.devfile.name = name

\* C6: when the starter archive placed a devfile.yaml, the manifest on disk
\* after a successful run is the manifest of the starter, with only
\* metadata.name replaced by the name personalised before the download.
C6_StarterManifestPrecedence ==
    (Returned /\ ~Failed /\ "devfile" \in extracted)
        => /\ dir.devfile = [StarterManifest(TRUE) EXCEPT !.name = name]
           /\ First("PersonalizeName") < First("DownloadStarterProject")
           /\ name = PersonalizeName(AcquiredManifest(AcquiredName), flags,
                                     Backend(flags, isEmptyDir), name).name
              \/ name = PersonalizeName(AcquiredManifest(<<>>), flags,
                                        Backend(flags, isEmptyDir), name).name

C6_Witness ==
    /\ Returned
    /\ ~Failed
    /\ "devfile" \in extracted
    /\ dir.devfile.origin = "starter"
    /\ name = AcquiredName
    /\ name # StarterName

\* C7, as stated: every error of the steps 2 to 9 (the manifest-presence
\* check and the flag validation included) is returned with exactly one
\* cleanup annotation.
C7_EveryErrorAnnotated ==
    ((Exited \/ Returned) /\ Failed /\ err.cause \notin {"GetwdFailed", "StatFailed"})
        => err.annotations = <<IF starterDownloaded THEN NotCleanedUp ELSE DevfileRemoved>>

\* C7, amended: every error of a step of Run is returned with its cause and
\* exactly one cleanup annotation, "not cleaned up" if starterDownloaded is
\* true and "the devfile has been removed" otherwise; an error of Validate
\* (manifest-presence check, flag validation) is returned as it is, without
\* annotation, and nothing is removed.
C7_RunErrorsAnnotated ==
    /\ (Returned /\ Failed)
        => /\ err.cause # "nil"
           /\ err.annotations = <<IF starterDownloaded THEN NotCleanedUp ELSE DevfileRemoved>>
           /\ Called("Remove") <=> ~starterDownloaded
    /\ Exited
        => /\ Failed
           /\ err.annotations = <<>>
           /\ ~Called("Remove")
           /\ dir = preDir

C7_Witness ==
    /\ Returned
    /\ err = Annotate(Error("StarterNotFound"), DevfileRemoved)
    /\ Called("Remove")

\* The rules of the flag validation a mapping violates
Violations(f) ==
    (IF Has(f, FLAG_DEVFILE) /\ Has(f, FLAG_DEVFILE_PATH) THEN {"FlagConflict"} ELSE {})
    \cup (IF Has(f, FLAG_DEVFILE_REGISTRY) /\ ~Has(f, FLAG_DEVFILE) THEN {"FlagDependency"} ELSE {})
    \cup (IF Has(f, FLAG_STARTER) /\ ~Has(f, FLAG_DEVFILE) /\ ~Has(f, FLAG_DEVFILE_PATH)
          THEN {"StarterWithoutDevfile"} ELSE {})

\* C8, as stated: every flag mapping that violates the validation rules makes
\* init fail with the corresponding validation error.
C8_ValidationErrorAlways ==
    (Violations(flags) # {} /\ Exited /\ err.cause # "StatFailed")
        => err.cause \in Violations(flags)

\* C8, amended: every flag mapping that violates the validation rules makes
\* init fail in Validate, before Run starts: no file is written, no manifest
\* is acquired, no starter is downloaded.  The error is the corresponding
\* validation error when the directory holds no devfile.yaml, and the
\* already-initialised error when it does.
C8_FlagExclusivity ==
    Violations(flags) # {}
        => /\ ~InRun
           /\ dir = preDir
           /\ ~Called("SelectAndPersonalizeDevfile")
           /\ ~Called("DownloadStarterProject")
           /\ ~Called("SetMetadataName")
           /\ Exited
                => /\ Failed
                   /\ err.cause # "StatFailed"
                        => IF DirectoryContainsDevfile(preDir)
                           THEN err = Error("AlreadyInitialised")
                           ELSE err.cause \in Violations(flags) /\ err.annotations = <<>>

C8_Witness ==
    /\ Exited
    /\ err = Error("FlagConflict")
    /\ ~DirectoryContainsDevfile(preDir)
    /\ Called("Validate")

PipelineNoStarter ==
    <<"SelectAndPersonalizeDevfile", "SelectStarterProject", "PersonalizeName", "SetMetadataName">>
PipelineStarter ==
    <<"SelectAndPersonalizeDevfile", "SelectStarterProject", "PersonalizeName",
      "DownloadStarterProject", "Stat", "SetMetadataName">>
PipelineStarterManifest ==
    <<"SelectAndPersonalizeDevfile", "SelectStarterProject", "PersonalizeName",
      "DownloadStarterProject", "Stat", "ParseDevfileAndValidate", "SetMetadataName">>

IsPipelineStep(e) == \E i \in 1..Len(PipelineStarterManifest) : PipelineStarterManifest[i] = e

\* The calls of the pipeline made so far
PipelineLog == SelectSeq(log, IsPipelineStep)

IsPrefix(s, t) == Len(s) <= Len(t) /\ \A i \in 1..Len(s) : s[i] = t[i]

\* What the collaborators leave at devfile.yaml (nothing, the file found
\* there, the acquired manifest, the manifest of the starter)
LeftByCollaborators ==
    {NoManifest, PreManifest, StarterManifest(TRUE), StarterManifest(FALSE),
     [AcquiredManifest(AcquiredName) EXCEPT !.valid = FALSE]}
    \cup {AcquiredManifest(n) : n \in AcquiredNames}

\* C10: the steps of a run occur in the order acquire, select starter,
\* personalise name, download (only if a starter was selected), re-parse (only
\* if devfilePath exists after the download), commit; each starts only after
\* the previous one returned without error; the name stays in memory until
\* the commit, which is the only write of the manifest by the orchestrator and
\* comes after the download has returned.  (The result of FS.Stat, which Run
\* tests to decide on the re-parse, is no error of a step.)
C10_PipelineOrdering ==
    /\ \/ IsPrefix(PipelineLog, PipelineNoStarter)
       \/ IsPrefix(PipelineLog, PipelineStarter)
       \/ IsPrefix(PipelineLog, PipelineStarterManifest)
    /\ Called("DownloadStarterProject") => starterInfo # Nil
    /\ (Called("SetMetadataName") /\ starterInfo # Nil)
            => Called("DownloadStarterProject") /\ starterDownloaded
    /\ (pc = "Commit" /\ Called("Stat"))
            => (Called("ParseDevfileAndValidate") <=> StatOK(dir, devfilePath))
    /\ Failed => \/ pc \in {"Exit", "Deferred", "Done"}
                 \/ pc = "Commit" /\ err = StatError(FALSE) /\ log[Len(log)] = "Stat"
    /\ ~Called("PersonalizeName") => name = <<>>
    /\ ~Called("SetMetadataName") => dir.devfile \in LeftByCollaborators
    /\ (Returned /\ ~Failed) => Count("SetMetadataName") = 1

C10_Witness ==
    /\ Returned
    /\ ~Failed
    /\ PipelineLog = PipelineStarterManifest
    /\ Has(flags, FLAG_NAME)
    /\ dir.devfile.name = flags[FLAG_NAME]

\* C11: over a run the orchestrator issues at most one removal, of the file
\* devfile.yaml and of nothing else (the other entries of the directory stay
\* as they are), and only when the run ends in error with starterDownloaded
\* false; a run that succeeds removes nothing.
C11_RemovalIsFramed ==
    /\ Len(removed) <= 1
    /\ Count("Remove") = Len(removed)
    /\ \A i \in 1..Len(removed) : removed[i] = DevfileYaml
    /\ removed # <<>> => Returned /\ Failed /\ ~starterDownloaded
    /\ (Returned /\ ~Failed) => removed = <<>>
    /\ ~InRun => removed = <<>>

C11_RollbackFrame ==
    /\ []C11_RemovalIsFramed
    /\ [][removed' # removed
            => /\ pc = "Deferred"
               /\ dir'.others = dir.others
               /\ dir'.devfile = NoManifest]_vars

C11_Witness ==
    /\ Returned
    /\ removed = <<DevfileYaml>>
    /\ err.cause = "DownloadFailed"
    /\ \E i \in Slots : dir.others[i] = "user"

\* C12: starterDownloaded is false when a run starts, becomes true only right
\* after DownloadStarterProject returned without error, and never goes back
\* to false; when no starter is selected it stays false until Run returns,
\* so a failure of such a run removes the manifest.
C12_FlagStates ==
    /\ pc \in {"Complete", "Validate", "Exit", "Run", "Acquire", "SelectStarter",
               "PersonalizeName", "Download"} => ~starterDownloaded
    /\ starterDownloaded => starterInfo # Nil /\ Called("DownloadStarterProject")
    /\ pc = "Stat" => starterDownloaded
    /\ (Returned /\ Failed /\ starterInfo = Nil)
            => /\ removed = <<DevfileYaml>>
               /\ err.annotations = <<DevfileRemoved>>

C12_StarterDownloaded ==
    /\ []C12_FlagStates
    /\ [][starterDownloaded => starterDownloaded']_vars
    /\ [][(~starterDownloaded /\ starterDownloaded')
            => /\ pc = "Download"
               /\ err' = NoErr
               /\ log' = Append(log, "DownloadStarterProject")]_vars

C12_Witness ==
    /\ pc = "Stat"
    /\ starterDownloaded
    /\ log[Len(log)] = "DownloadStarterProject"
    /\ err = NoErr

\* The starter was downloaded and FS.Stat found no devfile.yaml
StatFoundNothing ==
    Called("Stat") /\ ~Called("ParseDevfileAndValidate") /\ pc # "Parse"

\* C13: when the starter is downloaded and devfilePath does not exist
\* afterwards, the failure of Stat is no error of the invocation: the acquired
\* manifest is kept and committed with the personalised name, and Run returns
\* success without rollback annotation (unless the commit itself fails).
C13_StarterWithoutManifest ==
    StatFoundNothing
        => /\ starterDownloaded
           /\ pc \in {"Commit", "Telemetry", "Deferred", "Done"}
           /\ devfileObj.origin = "acquired"
           /\ pc = "Commit" => /\ devfileObj \in {AcquiredManifest(n) : n \in AcquiredNames}
                               /\ ~DirectoryContainsDevfile(dir)
           /\ pc # "Commit" => err.cause \in {"nil", "WriteFailed"}
           /\ (Returned /\ err.cause # "WriteFailed")
                => /\ err = NoErr
                   /\ removed = <<>>
                   /\ dir.devfile.origin = "acquired"
                   /\ dir.devfile.valid
                   /\ dir.devfile.name = name

C13_Witness ==
    /\ Returned
    /\ StatFoundNothing
    /\ err = NoErr
    /\ dir.devfile = [AcquiredManifest(AcquiredName) EXCEPT !.name = name]
    /\ \A i \in Slots : dir.others[i] = "starter"

FactCalls == {"SetComponentType", "SetLanguage", "SetProjectType", "SetDevfileName"}

FactsUnset ==
    /\ telemetry.componentType = "unset"
    /\ telemetry.language = "unset"
    /\ telemetry.projectType = "unset"
    /\ telemetry.devfileName = "unset"
    /\ \A c \in FactCalls : ~Called(c)

\* C14: the interactive fact is true iff the flag mapping is empty; the facts
\* componentType, language, projectType and devfileName are each set at most
\* once, only in a run that succeeds and after the commit, from the manifest
\* that was committed (the one of the starter when it replaced the acquired
\* one; devfileName is the personalised name); a failed run sets none of them.
C14_Telemetry ==
    /\ telemetry.interactive =
            IF contextDir = "" THEN "unset"
            ELSE IF NoFlags(flags) THEN "true" ELSE "false"
    /\ Count("SetInteractive") <= 1
    /\ \A c \in FactCalls : Count(c) <= 1
    /\ FactsUnset
       \/ /\ \A c \in FactCalls : Called(c) /\ First("SetMetadataName") < First(c)
          /\ Called("SetMetadataName")
          /\ pc \in {"Deferred", "Done"}
          /\ err = NoErr
          /\ telemetry.componentType = dir.devfile.origin
          /\ telemetry.language = dir.devfile.origin
          /\ telemetry.projectType = dir.devfile.origin
          /\ telemetry.devfileName = name
          /\ dir.devfile.name = name
          /\ "devfile" \in extracted => telemetry.language = "starter"
    /\ ((Returned \/ Exited) /\ Failed) => FactsUnset
    /\ (Returned /\ ~Failed) => ~FactsUnset

C14_Witness ==
    /\ Returned
    /\ ~Failed
    /\ telemetry.interactive = "true"
    /\ telemetry.language = "starter"
    /\ telemetry.devfileName = name
    /\ name # StarterName

\* The emptiness probe of Run answered
ProbeAnswered == Called("DirIsEmpty") /\ err.cause # "ReadDirFailed"

====
